---- MODULE Spec2Model ----
(***************************************************************************)
(* Model of the CX anomaly detector's serving registry (Backend/src/       *)
(* service.py), of training (Backend/src/train.py), of batch prediction    *)
(* (Backend/src/predict.py) and of the helpers they share.                 *)
(*                                                                         *)
(* The registry is the module-level dictionary _model_state.  All request  *)
(* handlers are `async def` coroutines without an await in their bodies,   *)
(* so the event loop runs one handler at a time, from its first line to    *)
(* its return or raise; `loop` names the handler that holds the loop.      *)
(*                                                                         *)
(* Numbers.  Scores are floats in the program; here they are integers (a   *)
(* number of score units), and the guard 1e-10 of the normalisation is     *)
(* 1/EpsInv of a score unit.  Quotients and ensemble weights are exact     *)
(* rationals <<numerator, denominator>>.                                   *)
(*                                                                         *)
(* Artifacts.  Every joblib.load creates a new object; the object read by  *)
(* load attempt k is named k (training rewrites the artifacts between the  *)
(* attempts), 0 is Python's None.                                          *)
(***************************************************************************)
EXTENDS Integers, Sequences, FiniteSets, TLC

VARIABLES
    model_state,   \* _model_state: preprocessor, models, metadata, loaded_at, config
    loop,          \* the handler that holds the event loop
    clock,         \* number of load attempts started so far
    load,          \* locals of the running load_model_artifacts call
    reload_req,    \* POST /reload: "none", "waiting", "running"
    score_req,     \* POST /score: "none", "waiting", "running"
    score,         \* locals of the running score_interactions / score_records call
    health,        \* the response of the running health_check call
    pure,          \* inputs and outputs of the scoring functions applied on their own
    disk,          \* the artifacts directory: file name -> content
    job            \* locals of the running train or predict command

vars == <<model_state, loop, clock, load, reload_req, score_req, score, health,
          pure, disk, job>>

(***************************************************************************)
(* Bounds                                                                  *)
(***************************************************************************)
MaxLoads == 2      \* load attempts: the startup load and the reloads
MaxRecords == 2    \* records per scoring request
MaxScore == 1      \* negated raw scores range over 0..MaxScore score units
MaxTrainRows == 2  \* rows of a training table
EpsInv == 10       \* the guard 1e-10 is 1/EpsInv of a score unit

(***************************************************************************)
(* Program constants                                                       *)
(***************************************************************************)
None == 0
DefaultWeight == <<1, 2>>   \* weights.get(name, 0.5)

ModelNames == {"iforest", "lof"}

(***************************************************************************)
(* Python dictionaries are functions on the set of their keys.             *)
(***************************************************************************)
EmptyDict == [k \in {} |-> None]

DictSet(d, key, value) ==
    [k \in (DOMAIN d) \cup {key} |-> IF k = key THEN value ELSE d[k]]

DictGet(d, key, default) == IF key \in DOMAIN d THEN d[key] ELSE default

Range(s) == {s[i] : i \in DOMAIN s}

(***************************************************************************)
(* Files.  load_config() yields one of the configurations below or raises; *)
(* only the keys the serving and batch paths read are kept.                *)
(***************************************************************************)
\* config["features"]; the second file adds a feature that the training table
\* has and the API's InteractionRecord has not.
Features ==
    [numeric |-> <<"csat">>, categorical |-> <<"channel">>,
     identifier_columns |-> <<"interaction_id", "timestamp">>,
     drop_columns |-> <<>>]

ConfigFiles ==
    << [models   |-> <<"iforest", "lof">>,
        weights  |-> [iforest |-> <<1, 2>>, lof |-> <<1, 2>>],
        features |-> Features],
       [models   |-> <<"iforest">>,
        weights  |-> [iforest |-> <<7, 10>>],
        features |-> [Features EXCEPT !.numeric = <<"csat", "sentiment">>]],
       [models   |-> <<"lof", "iforest">>,
        weights  |-> [iforest |-> <<3, 10>>, lof |-> <<7, 10>>],
        features |-> Features] >>

ConfigIds == 1..Len(ConfigFiles)

InteractionIds == {"a", "b"}

\* InteractionRecord: the fields a record must carry and the optional ones
\* (csat stands for the optional numeric fields, channel for the categorical).
RequiredFields == {"interaction_id", "timestamp"}

OptionalFields == {"csat", "channel"}

\* record.model_dump(): every field of the schema, None for an absent one.
ModelDumpColumns == <<"interaction_id", "timestamp", "csat", "channel">>

\* The fields the records of a request carry: all of them, all but csat, all
\* but interaction_id.
FieldSets ==
    {RequiredFields \cup OptionalFields,
     (RequiredFields \cup OptionalFields) \ {"csat"},
     (RequiredFields \cup OptionalFields) \ {"interaction_id"}}

\* The record lists of a request, by interaction_id; neighbours differ, so that
\* the order of a list shows.
RecordLists ==
    {r \in UNION {[1..n -> InteractionIds] : n \in 1..MaxRecords} :
        \A i \in 1..(Len(r) - 1) : r[i] # r[i + 1]}

\* What model.score_samples may return for a record: 0, -1, ..., -MaxScore.
RawValues == {-x : x \in 0..MaxScore}

\* The metadata train_models stores for a model: the calibrated threshold and
\* the training score statistics.  k names the training run whose file is read.
MetadataFile(name, k) ==
    IF name = "iforest"
    THEN [threshold |-> k % (MaxScore + 1),
          score_stats |-> [min |-> 0, max |-> MaxScore]]
    ELSE [threshold |-> (k + 1) % (MaxScore + 1),
          score_stats |-> [min |-> 0, max |-> (k + 1) % (MaxScore + 1)]]

(***************************************************************************)
(* features.py                                                             *)
(***************************************************************************)
DefaultIdentifierColumns == <<"interaction_id", "timestamp">>

\* prepare_features without the drop_columns: only the identifiers are left out.
PrepareFeaturesKeepDrops(columns, config) ==
    LET identifier_cols == DictGet(config, "identifier_columns", DefaultIdentifierColumns)
    IN SelectSeq(columns, LAMBDA c : c \notin Range(identifier_cols))

\* prepare_features: the columns of feature_df, in the order of df.columns.
PrepareFeatures(columns, config) ==
    LET identifier_cols == DictGet(config, "identifier_columns", DefaultIdentifierColumns)
        drop_cols == DictGet(config, "drop_columns", <<>>)
    IN SelectSeq(columns, LAMBDA c : c \notin Range(identifier_cols)
                                     /\ c \notin Range(drop_cols))

\* validate_schema: the required columns the table lacks ({} when it is valid).
MissingColumns(columns, config) ==
    (Range(DictGet(config, "numeric", <<>>))
        \cup Range(DictGet(config, "categorical", <<>>))
        \cup Range(DictGet(config, "identifier_columns", <<>>)))
    \ Range(columns)

\* ColumnTransformer.transform: the fitted columns that feature_df lacks; the
\* transformer was fitted on the numeric and categorical features.
TransformMissing(feature_cols, config) ==
    (Range(config.numeric) \cup Range(config.categorical)) \ Range(feature_cols)

(***************************************************************************)
(* Exact rationals <<n, d>> with d > 0, in lowest terms.                   *)
(***************************************************************************)
Abs(x) == IF x < 0 THEN -x ELSE x

RECURSIVE GCD(_, _)
GCD(a, b) == IF b = 0 THEN a ELSE GCD(b, a % b)

Rat(n, d) ==
    LET g == GCD(Abs(n), Abs(d))
        sgn == IF d < 0 THEN -1 ELSE 1
    IN <<(sgn * n) \div g, (sgn * d) \div g>>

RatMul(p, q) == Rat(p[1] * q[1], p[2] * q[2])

RatAdd(p, q) == Rat(p[1] * q[2] + q[1] * p[2], p[2] * q[2])

\* np.clip(x, 0, 1)
Clip01(q) ==
    IF q[1] <= 0 THEN <<0, 1>>
    ELSE IF q[1] >= q[2] THEN <<1, 1>>
    ELSE q

(***************************************************************************)
(* score_records: the pure parts                                           *)
(***************************************************************************)
\* The model selections a client sends.
Selections == {"iforest", "lof", "both", "BOTH", "rcf", "bogus"}

\* str.lower() on the selections above.
Lower(s) == IF s = "BOTH" THEN "both" ELSE s

valid_selections == {"iforest", "lof", "lof", "both"}

model_map == [lof |-> "lof"]

\* Both models are computed whatever the selection.
ModelsToComputeAll(model_selection) == <<"iforest", "lof">>

ModelsToCompute(model_selection) ==
    IF model_selection = "both" THEN <<"iforest", "lof">>
    ELSE IF model_selection \in DOMAIN model_map THEN <<model_map[model_selection]>>
    ELSE <<model_selection>>

NotAvailableDetail(model_name) ==
    IF model_name = "iforest" THEN "Model 'iforest' not available"
    ELSE "Model 'lof' not available"

\* No availability check: no requested model is reported missing.
FirstMissingNone(names, available_models) == ""

\* The first requested model that is not among the loaded ones, "" if none.
FirstMissing(names, available_models) ==
    LET missing == {i \in DOMAIN names : names[i] \notin available_models}
    IN IF missing = {} THEN ""
       ELSE names[CHOOSE i \in missing : \A j \in missing : i <= j]

\* Lines 114-145: the HTTPException the checks raise, status 0 if none.
CheckSelection(models, selection) ==
    LET model_selection == Lower(selection)
        available_models == DOMAIN models
        missing == FirstMissing(ModelsToCompute(model_selection), available_models)
    IN IF DOMAIN models = {}
       THEN [status |-> 503, detail |-> "Models not loaded"]
       ELSE IF model_selection \notin valid_selections
       THEN [status |-> 400, detail |-> "model must be one of: iforest, lof, both"]
       ELSE IF missing # ""
       THEN [status |-> 503, detail |-> NotAvailableDetail(missing)]
       ELSE [status |-> 0, detail |-> ""]

\* scores = -model.score_samples(X); anomalies = (scores >= threshold).astype(int)
NegatedScores(raw) == [i \in DOMAIN raw |-> -raw[i]]

\* scores > threshold: a score equal to the threshold is not flagged.
AnomalyFlagsStrict(scores, threshold) ==
    [i \in DOMAIN scores |-> IF scores[i] > threshold THEN 1 ELSE 0]

AnomalyFlags(scores, threshold) ==
    [i \in DOMAIN scores |-> IF scores[i] >= threshold THEN 1 ELSE 0]

\* (scores - min) / (max - min + 1e-10) without the np.clip
NormalizeUnclipped(s, stats) ==
    Rat((s - stats.min) * EpsInv, (stats.max - stats.min) * EpsInv + 1)

\* (scores - min) / (max - min + 1e-10), clipped to [0, 1]
Normalize(s, stats) ==
    Clip01(Rat((s - stats.min) * EpsInv, (stats.max - stats.min) * EpsInv + 1))

\* iforest_normalized + lof_normalized: the weights are left out.
UnweightedSum(wi, ni, wl, nl) == RatAdd(ni, nl)

\* iforest_weight * iforest_normalized + lof_weight * lof_normalized
WeightedSum(wi, ni, wl, nl) == RatAdd(RatMul(wi, ni), RatMul(wl, nl))

EnsembleScores(weights, iforest_scores, iforest_stats, lof_scores, lof_stats) ==
    LET iforest_weight == DictGet(weights, "iforest", DefaultWeight)
        lof_weight == DictGet(weights, "lof", DefaultWeight)
    IN [i \in DOMAIN iforest_scores |->
          WeightedSum(iforest_weight, Normalize(iforest_scores[i], iforest_stats),
                      lof_weight, Normalize(lof_scores[i], lof_stats))]

\* np.logical_and in place of np.logical_or
LogicalAnd(a, b) == [i \in DOMAIN a |-> IF a[i] # 0 /\ b[i] # 0 THEN 1 ELSE 0]

\* np.logical_or(a, b).astype(int)
LogicalOr(a, b) == [i \in DOMAIN a |-> IF a[i] # 0 \/ b[i] # 0 THEN 1 ELSE 0]

\* Lines 184-213: the ensemble entries, added when both models were requested.
WithEnsemble(model_selection, weights, metadata, computed) ==
    IF /\ model_selection = "both"
       /\ "iforest" \in DOMAIN computed.anomalies
       /\ "lof" \in DOMAIN computed.anomalies
    THEN [scores |-> DictSet(computed.scores, "ensemble",
                        EnsembleScores(weights,
                            computed.scores["iforest"], metadata["iforest"].score_stats,
                            computed.scores["lof"], metadata["lof"].score_stats)),
          anomalies |-> DictSet(computed.anomalies, "ensemble",
                        LogicalOr(computed.anomalies["iforest"],
                                  computed.anomalies["lof"]))]
    ELSE computed

\* The results list built from the last record to the first.
BuildResultsReversed(records, computed) ==
    [i \in DOMAIN records |->
        [interaction_id |-> records[Len(records) + 1 - i],
         scores     |-> [name \in DOMAIN computed.scores |->
                            computed.scores[name][Len(records) + 1 - i]],
         is_anomaly |-> [name \in DOMAIN computed.anomalies |->
                            computed.anomalies[name][Len(records) + 1 - i]]]]

\* Lines 215-245: one AnomalyScore per record.  A per-model score is kept as the
\* integer it is, the ensemble score as a rational.
BuildResults(records, computed) ==
    [i \in DOMAIN records |->
        [interaction_id |-> records[i],
         scores     |-> [name \in DOMAIN computed.scores |-> computed.scores[name][i]],
         is_anomaly |-> [name \in DOMAIN computed.anomalies |-> computed.anomalies[name][i]]]]

Max(S) == CHOOSE x \in S : \A y \in S : y <= x

RECURSIVE SumSeq(_)
SumSeq(s) == IF s = <<>> THEN 0 ELSE s[1] + SumSeq(Tail(s))

\* Every flag of every record is counted, the per-model ones and the ensemble.
AnomaliesDetectedAllFlags(results) ==
    SumSeq([i \in DOMAIN results |->
              SumSeq([k \in 1..3 |->
                 DictGet(results[i].is_anomaly, <<"iforest", "lof", "ensemble">>[k], 0)])])

\* score_interactions, lines 320-329
AnomaliesDetected(results) ==
    SumSeq([i \in DOMAIN results |->
              IF "ensemble" \in DOMAIN results[i].is_anomaly
              THEN results[i].is_anomaly["ensemble"]
              ELSE Max(Range(results[i].is_anomaly))])

NoResponse ==
    [status |-> 0, detail |-> "", scores |-> <<>>, total_records |-> 0,
     anomalies_detected |-> 0]

\* Lines 163-182 for the requested models: scores and flags by model name.
\* metadata[name] is the model's metadata, raw[name] what score_samples returned.
ComputeModels(models_to_compute, metadata, raw) ==
    [scores    |-> [name \in models_to_compute |-> NegatedScores(raw[name])],
     anomalies |-> [name \in models_to_compute |->
                       AnomalyFlags(NegatedScores(raw[name]), metadata[name].threshold)]]

\* BatchScoreResponse (score_interactions, lines 336-341)
Success(records, results) ==
    [status |-> 200, detail |-> "", scores |-> results,
     total_records |-> Len(records),
     anomalies_detected |-> AnomaliesDetected(results)]

Failure(status, detail) == [NoResponse EXCEPT !.status = status, !.detail = detail]

\* score_records and the response of score_interactions on a registry that holds
\* a configuration, a preprocessor and the metadata of each of its models.
ScoreRecords(models, metadata, config, records, selection, raw) ==
    LET err == CheckSelection(models, selection)
        model_selection == Lower(selection)
        models_to_compute == Range(ModelsToCompute(model_selection))
        computed == WithEnsemble(model_selection, config.weights, metadata,
                                 ComputeModels(models_to_compute, metadata, raw))
    IN IF err.status # 0
       THEN Failure(err.status, err.detail)
       ELSE Success(records, BuildResults(records, computed))

(***************************************************************************)
(* predict.py                                                              *)
(***************************************************************************)
\* load_artifacts(config, model_name): the names of the models it loads;
\* "" stands for model_name = None, <<>> for the ValueError.
ModelsToLoad(config, model_name) ==
    IF model_name # ""
    THEN IF model_name \notin Range(config.models) THEN <<>> ELSE <<model_name>>
    ELSE config.models

\* iforest_scores >= iforest_threshold: a boolean per record
BatchFlags(scores, threshold) == [i \in DOMAIN scores |-> scores[i] >= threshold]

\* (scores - min) / (max - min + 1e-10) without the np.clip
BatchNormalizeUnclipped(s, stats) ==
    Rat((s - stats.min) * EpsInv, (stats.max - stats.min) * EpsInv + 1)

\* (scores - min) / (max - min + 1e-10), clipped to [0, 1]   (lines 139-148)
BatchNormalize(s, stats) ==
    Clip01(Rat((s - stats.min) * EpsInv, (stats.max - stats.min) * EpsInv + 1))

NoBatch == [error |-> "", rows |-> <<>>]

\* predict_batch: the results table, or the ValueError of line 101.
PredictBatch(config, artifacts, records, raw) ==
    IF ~({"iforest", "lof"} \subseteq DOMAIN artifacts.models)
    THEN [error |-> "Required models not available", rows |-> <<>>]
    ELSE
      LET iforest_metadata == artifacts.metadata["iforest"]
          iforest_scores == NegatedScores(raw["iforest"])
          iforest_anomalies == BatchFlags(iforest_scores, iforest_metadata.threshold)
          lof_metadata == artifacts.metadata["lof"]
          lof_scores == NegatedScores(raw["lof"])
          lof_anomalies == BatchFlags(lof_scores, lof_metadata.threshold)
          iforest_weight == DictGet(config.weights, "iforest", DefaultWeight)
          lof_weight == DictGet(config.weights, "lof", DefaultWeight)
      IN [error |-> "",
          rows |-> [i \in DOMAIN records |->
             [interaction_id   |-> records[i],
              iforest_score    |-> iforest_scores[i],
              iforest_anomaly  |-> iforest_anomalies[i],
              lof_score        |-> lof_scores[i],
              lof_anomaly      |-> lof_anomalies[i],
              ensemble_score   |->
                  WeightedSum(iforest_weight,
                              BatchNormalize(iforest_scores[i], iforest_metadata.score_stats),
                              lof_weight,
                              BatchNormalize(lof_scores[i], lof_metadata.score_stats)),
              ensemble_anomaly |-> iforest_anomalies[i] \/ lof_anomalies[i]]]]

(***************************************************************************)
(* The command-line jobs: train.py main and predict.py main, run one at a  *)
(* time on an artifacts directory.  A table is the list of its columns and *)
(* the channel value of each row (read only if the column is there).       *)
(***************************************************************************)
CsvColumns == <<"interaction_id", "timestamp", "csat", "channel", "notes">>

Categories == {"voice", "chat"}

\* The column lists of the input files: all columns, or all but one.
ColumnLists ==
    {CsvColumns} \cup
    {SelectSeq(CsvColumns, LAMBDA c : c # gone) : gone \in Range(CsvColumns)}

Tables(max_rows) ==
    {[columns |-> cols, channel |-> rows] :
        cols \in ColumnLists, rows \in UNION {[1..n -> Categories] : n \in 1..max_rows}}

NoTable == [columns |-> <<>>, channel |-> <<>>]

\* The configurations of the jobs: features, preprocessing.categorical_unknown
\* and, per model, name, algorithm and threshold_percentile.  The second has
\* no identifier_columns and no drop_columns key; the third names an
\* algorithm train_models does not know.
JobConfigs ==
    << [features |-> [Features EXCEPT !.drop_columns = <<"notes">>],
        categorical_unknown |-> "ignore",
        models |-> << [name |-> "iforest", algorithm |-> "IsolationForest",
                       threshold_percentile |-> 100],
                      [name |-> "lof", algorithm |-> "LOF",
                       threshold_percentile |-> 0] >>],
       [features |-> [numeric |-> <<"csat">>, categorical |-> <<"channel">>],
        categorical_unknown |-> "error",
        models |-> << [name |-> "iforest", algorithm |-> "IsolationForest",
                       threshold_percentile |-> 50],
                      [name |-> "lof", algorithm |-> "LOF",
                       threshold_percentile |-> 100] >>],
       [features |-> [Features EXCEPT !.drop_columns = <<"notes">>],
        categorical_unknown |-> "ignore",
        models |-> << [name |-> "iforest", algorithm |-> "IsolationForest",
                       threshold_percentile |-> 0],
                      [name |-> "rcf", algorithm |-> "RCF",
                       threshold_percentile |-> 50] >>] >>

PreprocessorPath == "preprocessor.joblib"

GlobalMetaPath == "meta_global.joblib"

\* model_template.format(name=...), meta_template.format(name=...)
ModelPath(name) ==
    IF name = "iforest" THEN "model_iforest.joblib"
    ELSE IF name = "lof" THEN "model_lof.joblib" ELSE "model_rcf.joblib"

\* One metadata file for all the models.
MetaPathShared(name) == "meta.joblib"

MetaPath(name) ==
    IF name = "iforest" THEN "meta_iforest.joblib"
    ELSE IF name = "lof" THEN "meta_lof.joblib" ELSE "meta_rcf.joblib"

NoPreprocessor == [columns |-> {}, categories |-> {}, handle_unknown |-> ""]

\* ColumnTransformer.fit: the fitted columns and, for the one-hot encoder,
\* the categories seen in the channel column.
FitPreprocessor(config, table) ==
    [columns |-> Range(config.features.numeric) \cup Range(config.features.categorical),
     categories |-> IF "channel" \in Range(config.features.categorical)
                    THEN Range(table.channel) ELSE {},
     handle_unknown |-> config.categorical_unknown]

\* OneHotEncoder with handle_unknown="error" whatever was configured.
OneHotStrict(preprocessor, value) ==
    [raised |-> value \notin preprocessor.categories,
     vector |-> [c \in preprocessor.categories |-> IF value = c THEN 1 ELSE 0]]

\* OneHotEncoder.transform of one value: the indicator vector over the fitted
\* categories; an unseen value raises unless handle_unknown is "ignore".
OneHot(preprocessor, value) ==
    [raised |-> value \notin preprocessor.categories
                   /\ preprocessor.handle_unknown # "ignore",
     vector |-> [c \in preprocessor.categories |-> IF value = c THEN 1 ELSE 0]]

Min(S) == CHOOSE x \in S : \A y \in S : x <= y

\* The largest training score, whatever the percentile.
PercentileMax(scores, q) == <<Max(Range(scores)), 1>>

\* np.percentile(scores, q), linear interpolation between the order statistics
\* around position q/100 * (n - 1).
Percentile(scores, q) ==
    LET a == SortSeq(scores, LAMBDA x, y : x < y)
        n == Len(a)
        lo == (q * (n - 1)) \div 100 + 1
        hi == IF lo < n THEN lo + 1 ELSE lo
        gamma == Rat((q * (n - 1)) % 100, 100)
    IN RatAdd(<<a[lo], 1>>, RatMul(gamma, <<a[hi] - a[lo], 1>>))

\* train_models, lines 113-135: the metadata of a fitted model.
ModelMetadata(model_config, train_scores) ==
    [algorithm |-> model_config.algorithm,
     threshold |-> Percentile(train_scores, model_config.threshold_percentile),
     threshold_percentile |-> model_config.threshold_percentile,
     score_stats |-> [min |-> Min(Range(train_scores)),
                      max |-> Max(Range(train_scores))]]

\* A directory left by an earlier training run.
OldArtifacts ==
    LET meta == [algorithm |-> "IsolationForest", threshold |-> <<1, 1>>,
                 threshold_percentile |-> 100,
                 score_stats |-> [min |-> 0, max |-> 1]]
    IN [f \in {PreprocessorPath, ModelPath("iforest"), MetaPath("iforest"),
               ModelPath("lof"), MetaPath("lof"), GlobalMetaPath} |->
          IF f = PreprocessorPath
          THEN [columns |-> {"csat", "channel"}, categories |-> {"voice"},
                handle_unknown |-> "ignore"]
          ELSE IF f = ModelPath("iforest") THEN [algorithm |-> "IsolationForest"]
          ELSE IF f = ModelPath("lof") THEN [algorithm |-> "LOF"]
          ELSE IF f = MetaPath("iforest") THEN meta
          ELSE IF f = MetaPath("lof") THEN [meta EXCEPT !.algorithm = "LOF"]
          ELSE [models_trained |-> <<"iforest", "lof">>]]

JobIdle ==
    [pc |-> "idle", cmd |-> "", config |-> 0, model_arg |-> "", input |-> NoTable,
     df |-> NoTable, before |-> EmptyDict, feature_cols |-> <<>>, preprocessor |-> NoPreprocessor,
     fitted |-> FALSE, i |-> 0, train_scores |-> <<>>, models |-> EmptyDict,
     metadata |-> EmptyDict, X |-> <<>>, scored |-> 0, error |-> ""]

RegistryIdle ==
    UNCHANGED <<model_state, loop, clock, load, reload_req, score_req, score, health, pure>>

(***************************************************************************)
(* The registry                                                            *)
(***************************************************************************)
ModelStateInit ==
    [preprocessor |-> None,
     models       |-> EmptyDict,
     metadata     |-> EmptyDict,
     loaded_at    |-> None,
     config       |-> None]

\* The locals of load_model_artifacts.  `after_train` and `reads` are not
\* program state: whether the training run had completed when the load
\* started, and, per file read, whether the training run had written it.
LoadIdle ==
    [pc |-> "idle", caller |-> "none", config |-> None, i |-> 0, before |-> ModelStateInit,
     after_train |-> FALSE, reads |-> EmptyDict]

NoneComputed == [scores |-> EmptyDict, anomalies |-> EmptyDict]

ScoreIdle ==
    [pc |-> "idle", model |-> "", records |-> <<>>, fields |-> {},
     start |-> ModelStateInit,
     available_models |-> {}, config |-> None, preprocessor |-> None,
     models |-> EmptyDict, metadata |-> EmptyDict,
     computed |-> NoneComputed, response |-> NoResponse]

PureIdle ==
    [pc |-> "off", selection |-> "", records |-> <<>>, config |-> None,
     artifacts |-> [models |-> EmptyDict, metadata |-> EmptyDict],
     raw |-> EmptyDict, served |-> NoResponse, normalized |-> EmptyDict,
     batch |-> NoBatch, batch_normalized |-> EmptyDict]

\* Handlers declared `def`: FastAPI would run each request in a worker thread,
\* whatever the loop is doing.
CanDispatchThreaded == TRUE

\* `async def` handlers: a request is dispatched when the loop is free.
CanDispatch == loop = "idle"

(***************************************************************************)
(* load_model_artifacts, statement by statement.  `load.before` remembers  *)
(* the registry at the call (it is not program state).                     *)
(***************************************************************************)
\* config = load_config(); artifacts_dir = config["artifacts"]["dir"]
LoadConfig ==
    /\ load.pc = "config"
    /\ \/ \E c \in ConfigIds :
             load' = [load EXCEPT !.pc = "preprocessor", !.config = c]
       \/ load' = [load EXCEPT !.pc = "raise"]
    /\ UNCHANGED <<model_state, loop, clock, reload_req, score_req, score, health, pure, disk, job>>

\* _model_state["preprocessor"] = joblib.load(preprocessor_path)
LoadPreprocessor ==
    /\ load.pc = "preprocessor"
    /\ \/ /\ model_state' = [model_state EXCEPT !.preprocessor = clock]
          /\ load' = [load EXCEPT
                        !.pc = IF Len(ConfigFiles[load.config].models) = 0
                               THEN "finish" ELSE "model",
                        !.i = 1]
       \/ /\ load' = [load EXCEPT !.pc = "raise"]
          /\ UNCHANGED model_state
    /\ UNCHANGED <<loop, clock, reload_req, score_req, score, health, pure, disk, job>>

\* _model_state["models"][model_name] = joblib.load(model_path)
LoadModel ==
    /\ load.pc = "model"
    /\ LET model_name == ConfigFiles[load.config].models[load.i]
       IN \/ /\ model_state' = [model_state EXCEPT
                                  !.models = DictSet(@, model_name, clock)]
             /\ load' = [load EXCEPT !.pc = "meta"]
          \/ /\ load' = [load EXCEPT !.pc = "raise"]
             /\ UNCHANGED model_state
    /\ UNCHANGED <<loop, clock, reload_req, score_req, score, health, pure, disk, job>>

\* _model_state["metadata"][model_name] = joblib.load(meta_path)
LoadMeta ==
    /\ load.pc = "meta"
    /\ LET model_name == ConfigFiles[load.config].models[load.i]
       IN \/ /\ model_state' = [model_state EXCEPT
                                  !.metadata = DictSet(@, model_name, clock)]
             /\ load' = [load EXCEPT
                           !.pc = IF load.i = Len(ConfigFiles[load.config].models)
                                  THEN "finish" ELSE "model",
                           !.i = @ + 1]
          \/ /\ load' = [load EXCEPT !.pc = "raise"]
             /\ UNCHANGED model_state
    /\ UNCHANGED <<loop, clock, reload_req, score_req, score, health, pure, disk, job>>

\* _model_state["loaded_at"] = now; _model_state["config"] = config
LoadFinish ==
    /\ load.pc = "finish"
    /\ model_state' = [model_state EXCEPT !.loaded_at = clock, !.config = load.config]
    /\ load' = [load EXCEPT !.pc = "return"]
    /\ UNCHANGED <<loop, clock, reload_req, score_req, score, health, pure, disk, job>>

\* startup_event: the load's exception is logged and swallowed.
StartupDone ==
    /\ load.caller = "startup"
    /\ load.pc \in {"return", "raise"}
    /\ loop' = "idle"
    /\ load' = LoadIdle
    /\ UNCHANGED <<model_state, clock, reload_req, score_req, score, health, pure, disk, job>>

\* A client posts /reload.
ClientReload ==
    /\ reload_req = "none"
    /\ clock < MaxLoads
    /\ reload_req' = "waiting"
    /\ UNCHANGED <<model_state, loop, clock, load, score_req, score, health, pure, disk, job>>

\* reload_model is entered and calls load_model_artifacts.
ReloadStart ==
    /\ reload_req = "waiting"
    /\ CanDispatch
    /\ loop' = "reload"
    /\ reload_req' = "running"
    /\ clock' = clock + 1
    /\ load' = [LoadIdle EXCEPT !.pc = "config", !.caller = "reload", !.before = model_state]
    /\ UNCHANGED <<model_state, score_req, score, health, pure, disk, job>>

\* reload_model returns {"status": "success"} or raises HTTPException(500).
ReloadDone ==
    /\ load.caller = "reload"
    /\ load.pc \in {"return", "raise"}
    /\ loop' = "idle"
    /\ reload_req' = "none"
    /\ load' = LoadIdle
    /\ UNCHANGED <<model_state, clock, score_req, score, health, pure, disk, job>>

(***************************************************************************)
(* POST /score: score_interactions and the score_records call in it.       *)
(* `score.start` remembers the registry at the call (not program state).   *)
(***************************************************************************)
\* A client posts /score?model=m with a list of records.
ClientScore ==
    /\ score_req = "none"
    /\ \E m \in Selections, records \in RecordLists, fields \in FieldSets :
          score' = [ScoreIdle EXCEPT !.pc = "queued", !.model = m, !.records = records,
                                     !.fields = fields]
    /\ score_req' = "waiting"
    /\ UNCHANGED <<model_state, loop, clock, load, reload_req, health, pure, disk, job>>

\* The body is validated against List[InteractionRecord]; a record without a
\* required field is answered 422 and score_interactions is not entered.
ScoreStart ==
    /\ score_req = "waiting"
    /\ CanDispatch
    /\ loop' = "score"
    /\ score_req' = "running"
    /\ score' = IF RequiredFields \subseteq score.fields
                THEN [score EXCEPT !.pc = "check", !.start = model_state]
                ELSE [score EXCEPT !.pc = "respond", !.start = model_state,
                                   !.response = Failure(422, "Field required")]
    /\ UNCHANGED <<model_state, clock, load, reload_req, health, pure, disk, job>>

\* Lines 114-145: models loaded, selection valid, requested models available.
ScoreCheck ==
    /\ score.pc = "check"
    /\ LET err == CheckSelection(model_state.models, score.model)
       IN score' = IF err.status # 0
                   THEN [score EXCEPT !.pc = "respond",
                                      !.response = Failure(err.status, err.detail)]
                   ELSE [score EXCEPT !.pc = "prepare",
                                      !.available_models = DOMAIN model_state.models]
    /\ UNCHANGED <<model_state, loop, clock, load, reload_req, score_req, health, pure, disk, job>>

\* preprocessor.fit_transform(feature_df) in place of transform: the request
\* refits the shared preprocessor.
ScorePrepareRefit ==
    /\ score.pc = "prepare"
    /\ model_state.config # None /\ model_state.preprocessor # None
    /\ TransformMissing(PrepareFeatures(ModelDumpColumns,
                                        ConfigFiles[model_state.config].features),
                        ConfigFiles[model_state.config].features) = {}
    /\ model_state' = [model_state EXCEPT !.preprocessor = MaxLoads + 1]
    /\ score' = [score EXCEPT !.pc = "compute",
                   !.config = model_state.config,
                   !.preprocessor = MaxLoads + 1]
    /\ UNCHANGED <<loop, clock, load, reload_req, score_req, health, pure, disk, job>>

\* Lines 147-157: config["features"] and preprocessor.transform(feature_df);
\* an exception becomes the 500 of score_interactions.
ScorePrepare ==
    /\ score.pc = "prepare"
    /\ score' =
         IF model_state.config = None
         THEN [score EXCEPT !.pc = "respond",
                 !.response = Failure(500, "'NoneType' object is not subscriptable")]
         ELSE IF model_state.preprocessor = None
         THEN [score EXCEPT !.pc = "respond",
                 !.response = Failure(500, "'NoneType' object has no attribute 'transform'")]
         ELSE IF TransformMissing(
                    PrepareFeatures(ModelDumpColumns,
                                    ConfigFiles[model_state.config].features),
                    ConfigFiles[model_state.config].features) # {}
         THEN [score EXCEPT !.pc = "respond",
                 !.response = Failure(500, "columns are missing")]
         ELSE [score EXCEPT !.pc = "compute",
                 !.config = model_state.config,
                 !.preprocessor = model_state.preprocessor]
    /\ UNCHANGED <<model_state, loop, clock, load, reload_req, score_req, health, pure, disk, job>>

\* Lines 163-182: per requested model, the model, its metadata, the negated
\* scores and the flags; a missing key becomes the 500 of score_interactions.
ScoreCompute ==
    /\ score.pc = "compute"
    /\ LET models_to_compute == Range(ModelsToCompute(Lower(score.model)))
           absent == {name \in models_to_compute :
                         \/ name \notin DOMAIN model_state.models
                         \/ name \notin DOMAIN model_state.metadata}
       IN IF absent # {}
          THEN score' = [score EXCEPT !.pc = "respond",
                           !.response = Failure(500,
                               IF "iforest" \in absent THEN "'iforest'" ELSE "'lof'")]
          ELSE \E raw \in [models_to_compute -> [DOMAIN score.records -> RawValues]] :
                 score' = [score EXCEPT
                    !.pc = "combine",
                    !.models = [name \in models_to_compute |-> model_state.models[name]],
                    !.metadata = [name \in models_to_compute |-> model_state.metadata[name]],
                    !.computed = ComputeModels(models_to_compute,
                                    [name \in models_to_compute |->
                                        MetadataFile(name, model_state.metadata[name])],
                                    raw)]
    /\ UNCHANGED <<model_state, loop, clock, load, reload_req, score_req, health, pure, disk, job>>

\* Lines 184-245 and 320-341: the ensemble, the results, the batch response.
ScoreCombine ==
    /\ score.pc = "combine"
    /\ LET metadata == [name \in DOMAIN score.metadata |->
                           MetadataFile(name, score.metadata[name])]
           computed == WithEnsemble(Lower(score.model), ConfigFiles[score.config].weights,
                                    metadata, score.computed)
           results == BuildResults(score.records, computed)
       IN score' = [score EXCEPT
                      !.pc = "respond",
                      !.computed = computed,
                      !.response = Success(score.records, results)]
    /\ UNCHANGED <<model_state, loop, clock, load, reload_req, score_req, health, pure, disk, job>>

\* The response leaves; the handler's locals are gone.
ScoreDone ==
    /\ score.pc = "respond"
    /\ loop' = "idle"
    /\ score_req' = "none"
    /\ score' = ScoreIdle
    /\ UNCHANGED <<model_state, clock, load, reload_req, health, pure, disk, job>>

(***************************************************************************)
(* GET /health                                                             *)
(***************************************************************************)
NoHealth == [status |-> "", model_loaded |-> FALSE]

\* health_check: model_loaded = bool(_model_state["models"])
HealthResponse(state) ==
    LET model_loaded == DOMAIN state.models # {}
    IN [status |-> IF model_loaded THEN "healthy" ELSE "degraded",
        model_loaded |-> model_loaded]

\* A client gets /health and the handler runs to its return.
HealthCheck ==
    /\ CanDispatch
    /\ loop' = "health"
    /\ health' = HealthResponse(model_state)
    /\ UNCHANGED <<model_state, clock, load, reload_req, score_req, score, pure, disk, job>>

\* The response leaves.
HealthDone ==
    /\ loop = "health"
    /\ loop' = "idle"
    /\ health' = NoHealth
    /\ UNCHANGED <<model_state, clock, load, reload_req, score_req, score, pure, disk, job>>

Init ==
    /\ model_state = ModelStateInit
    /\ loop = "startup"
    /\ clock = 1
    /\ load = [LoadIdle EXCEPT !.pc = "config", !.caller = "startup"]
    /\ reload_req = "none"
    /\ score_req = "none"
    /\ score = ScoreIdle
    /\ health = NoHealth
    /\ pure = PureIdle
    /\ disk = EmptyDict
    /\ job = JobIdle

Next ==
    \/ LoadConfig
    \/ LoadPreprocessor
    \/ LoadModel
    \/ LoadMeta
    \/ LoadFinish
    \/ StartupDone
    \/ ClientReload
    \/ ReloadStart
    \/ ReloadDone
    \/ ClientScore
    \/ ScoreStart
    \/ ScoreCheck
    \/ ScorePrepare
    \/ ScoreCompute
    \/ ScoreCombine
    \/ ScoreDone
    \/ HealthCheck
    \/ HealthDone

Spec == Init /\ [][Next]_vars

(***************************************************************************)
(* Properties of the registry                                              *)
(***************************************************************************)
Loaded(state) == state.loaded_at # None

Responding == score.pc = "respond"

\* C1: a reload that fails on a loaded registry leaves the registry as it was
\* before the call (preprocessor, models, metadata, config, loaded_at).
C1_FailedReloadKeepsState ==
    (load.pc = "raise" /\ load.caller = "reload" /\ Loaded(load.before))
        => model_state = load.before

\* C2: the preprocessor, the models, the metadata and the configuration behind
\* a successful scoring response were all installed by one load.  (The
\* configuration is installed together with loaded_at, by the load it names.)
C2_ScoreUsesOneLoad ==
    (Responding /\ score.response.status = 200) =>
        /\ model_state.loaded_at = score.preprocessor
        /\ \A name \in DOMAIN score.models :
              /\ score.models[name] = score.preprocessor
              /\ score.metadata[name] = score.preprocessor

\* C3: everything a scoring call has read so far (the loaded model names, the
\* configuration, the preprocessor, the models and their metadata) is what the
\* registry held when the call started.
C3_ScoreReadsStartSnapshot ==
    /\ score.pc \in {"prepare", "compute", "combine"}
          => score.available_models = DOMAIN score.start.models
    /\ score.pc \in {"compute", "combine"}
          => /\ score.config = score.start.config
             /\ score.preprocessor = score.start.preprocessor
    /\ score.pc = "combine"
          => \A name \in DOMAIN score.models :
                /\ name \in DOMAIN score.start.models
                /\ name \in DOMAIN score.start.metadata
                /\ score.models[name] = score.start.models[name]
                /\ score.metadata[name] = score.start.metadata[name]
    /\ (Responding /\ score.response.status = 200)
          => /\ score.config = score.start.config
             /\ score.preprocessor = score.start.preprocessor
             /\ \A name \in DOMAIN score.models :
                   /\ name \in DOMAIN score.start.models
                   /\ name \in DOMAIN score.start.metadata
                   /\ score.models[name] = score.start.models[name]
                   /\ score.metadata[name] = score.start.metadata[name]

\* C3 witness: a call scored both models from a loaded registry while a reload,
\* requested in the meantime, waits for the loop.
C3_Witness ==
    /\ Responding /\ score.response.status = 200
    /\ Lower(score.model) = "both"
    /\ reload_req = "waiting"
    /\ score.models = score.start.models

\* C4: as long as no load has completed, every scoring call is answered with
\* 503 "Models not loaded".
C4_NotLoadedUntilFirstLoad ==
    (Responding /\ ~Loaded(model_state)) =>
        /\ score.response.status = 503
        /\ score.response.detail = "Models not loaded"

\* C5: a waiting scoring request can start while a reload runs, and a waiting
\* reload can start while a scoring request runs.
C5_NoBlocking ==
    /\ (reload_req = "running" /\ score_req = "waiting") => ENABLED ScoreStart
    /\ (score_req = "running" /\ reload_req = "waiting") => ENABLED ReloadStart

\* C6: when a load returns, the models and the metadata of the registry are
\* those of the names its configuration lists, no more and no fewer.
C6_InstalledMatchesConfig ==
    load.pc = "return" =>
        /\ DOMAIN model_state.models = Range(ConfigFiles[load.config].models)
        /\ DOMAIN model_state.metadata = Range(ConfigFiles[load.config].models)

\* C7: a request whose selection is none of iforest, lof, both is answered
\* with a 4xx status, whatever the registry holds.
C7_InvalidSelectionIsClientError ==
    (Responding /\ Lower(score.model) \notin valid_selections) =>
        (400 <= score.response.status /\ score.response.status < 500)

\* C8: when a scoring call responds, with scores or with an error, the registry
\* is what it was when the call started.
C8_ScoreLeavesRegistry ==
    score.pc \in {"check", "prepare", "compute", "combine", "respond"}
        => model_state = score.start

\* C8 witness: a successful call on a loaded registry.
C8_Witness ==
    /\ Responding /\ score.response.status = 200
    /\ Loaded(score.start)
    /\ model_state = score.start

C15_HealthTracksLoad ==
    loop = "health" =>
        /\ health.model_loaded <=> Loaded(model_state)
        /\ health.status = (IF health.model_loaded THEN "healthy" ELSE "degraded")

RequiredColumns(features) ==
    Range(features.numeric) \cup Range(features.categorical)
        \cup Range(features.identifier_columns)

\* C18: a request for loaded models whose records lack a column that the
\* loaded configuration requires is answered with a 4xx status, and the
\* registry is left as it was.
C18_MissingColumnIsClientError ==
    (/\ Responding
     /\ model_state.config # None
     /\ CheckSelection(model_state.models, score.model).status = 0
     /\ ~(RequiredColumns(ConfigFiles[model_state.config].features)
              \subseteq score.fields))
        => /\ 400 <= score.response.status /\ score.response.status < 500
           /\ model_state = score.start

\* C22: a successful response carries one result per submitted record, in the
\* order submitted, each with the interaction_id of its record, and
\* total_records is the number of records submitted.
C22_OneResultPerRecord ==
    (Responding /\ score.response.status = 200) =>
        /\ Len(score.response.scores) = Len(score.records)
        /\ \A i \in DOMAIN score.records :
              score.response.scores[i].interaction_id = score.records[i]
        /\ score.response.total_records = Len(score.records)

\* C22 witness: the records "b", "a" were scored by both models and the results
\* come back as "b", "a".
C22_Witness ==
    /\ Responding /\ score.response.status = 200
    /\ Lower(score.model) = "both"
    /\ score.records = <<"b", "a">>
    /\ score.response.scores[1].interaction_id = "b"
    /\ score.response.scores[2].interaction_id = "a"
    /\ score.response.total_records = 2

\* C23: with both models loaded under a configuration that lists both, a
\* request with model=rcf is answered 200 and each result carries an "rcf"
\* score and flag and neither "iforest" nor "ensemble"; a successful response
\* to model=both carries "rcf" entries next to the "iforest" entries.
C23_DensityModelIsRcf ==
    (/\ Responding
     /\ RequiredFields \subseteq score.fields
     /\ Loaded(model_state)
     /\ ModelNames \subseteq DOMAIN model_state.models
     /\ ModelNames \subseteq Range(ConfigFiles[model_state.config].models))
        => /\ Lower(score.model) = "rcf" =>
                 /\ score.response.status = 200
                 /\ \A i \in DOMAIN score.response.scores :
                       /\ DOMAIN score.response.scores[i].scores = {"rcf"}
                       /\ DOMAIN score.response.scores[i].is_anomaly = {"rcf"}
           /\ (Lower(score.model) = "both" /\ score.response.status = 200) =>
                 \A i \in DOMAIN score.response.scores :
                    /\ {"iforest", "rcf"} \subseteq DOMAIN score.response.scores[i].scores
                    /\ {"iforest", "rcf"} \subseteq DOMAIN score.response.scores[i].is_anomaly

\* The models a valid selection needs that the registry did not hold when the
\* call started.
NotLoadedFor(selection, state) ==
    {name \in Range(ModelsToCompute(Lower(selection))) : name \notin DOMAIN state.models}

\* C30: on a registry that holds models, a request with a valid selection
\* that needs a model not among them is answered 503 "Model '<name>' not
\* available"; the call has read no preprocessor, computed no score and the
\* response carries no result.
C30_UnavailableModelFailsFirst ==
    (/\ Responding
     /\ RequiredFields \subseteq score.fields
     /\ DOMAIN score.start.models # {}
     /\ Lower(score.model) \in valid_selections
     /\ NotLoadedFor(score.model, score.start) # {})
        => /\ score.response.status = 503
           /\ score.response.detail \in
                 {NotAvailableDetail(name) : name \in NotLoadedFor(score.model, score.start)}
           /\ score.response.scores = <<>>
           /\ score.preprocessor = None
           /\ score.computed = NoneComputed

\* C30 witness: a load of the iforest-only configuration completed; model=both
\* is answered 503 for lof, without the iforest result.
C30_Witness ==
    /\ Responding
    /\ Loaded(score.start)
    /\ DOMAIN score.start.models = {"iforest"}
    /\ Lower(score.model) = "both"
    /\ score.response.status = 503
    /\ score.response.detail = "Model 'lof' not available"
    /\ score.response.scores = <<>>

\* The 500s of a scoring call that finds no configuration, no preprocessor or
\* no entry for a requested model.
MissingEntryDetails ==
    {"'NoneType' object is not subscriptable",
     "'NoneType' object has no attribute 'transform'", "'iforest'", "'lof'"}

\* C27: whenever no load is running (after a failed one too), models and
\* metadata hold the same names, and a registry with models holds a
\* preprocessor and a configuration; a scoring call that found models in the
\* registry is not answered with the 500 of a missing metadata entry,
\* preprocessor or configuration.
C27_RegistryIsConsistent ==
    /\ load.pc \in {"idle", "return", "raise"} =>
          /\ DOMAIN model_state.models = DOMAIN model_state.metadata
          /\ DOMAIN model_state.models # {} =>
                (model_state.preprocessor # None /\ model_state.config # None)
    /\ (Responding /\ DOMAIN score.start.models # {}) =>
          ~(score.response.status = 500 /\ score.response.detail \in MissingEntryDetails)

\* C24: when a reload returns after every earlier load failed, /health answers
\* "healthy", and what a scoring call reads from the registry (the
\* preprocessor, each model it may select and that model's metadata) was
\* installed by this reload.
C24_RecoveredLoadServesNewArtifacts ==
    (load.pc = "return" /\ load.caller = "reload" /\ ~Loaded(load.before)) =>
        /\ HealthResponse(model_state).status = "healthy"
        /\ model_state.preprocessor = clock
        /\ \A name \in DOMAIN model_state.models :
              /\ model_state.models[name] = clock
              /\ DictGet(model_state.metadata, name, None) = clock

(***************************************************************************)
(* The scoring functions on their own: score_records on a registry loaded  *)
(* from a set of artifacts, and predict_batch on the same artifacts, the   *)
(* same records and the same raw model scores.                             *)
(***************************************************************************)
\* Metadata a training run can have stored: the minimum and the maximum of the
\* training scores and the threshold, a percentile of them (min <= threshold <=
\* max; min = max when all training scores are equal).
MetadataSet ==
    {[threshold |-> t, score_stats |-> [min |-> mn, max |-> mx]] :
        <<mn, t, mx>> \in {x \in (0..MaxScore) \X (0..MaxScore) \X (0..MaxScore) :
                              x[1] <= x[2] /\ x[2] <= x[3]}}

\* The configurations the scoring functions are applied under: the files above
\* and two more weightings a configuration file may hold, a negative weight
\* and a weight given for one model only.
ScoringConfigs ==
    ConfigFiles \o
    << [models   |-> <<"iforest", "lof">>,
        weights  |-> [iforest |-> <<3, 2>>, lof |-> <<-1, 2>>],
        features |-> Features],
       [models   |-> <<"iforest", "lof">>,
        weights  |-> [iforest |-> <<1, 1>>],
        features |-> Features] >>

\* iforest_normalized and lof_normalized of score_records (lines 192-201), by
\* model name; empty when no ensemble is computed.
ServedNormalized(model_selection, metadata, computed) ==
    IF /\ model_selection = "both"
       /\ "iforest" \in DOMAIN computed.anomalies
       /\ "lof" \in DOMAIN computed.anomalies
    THEN [name \in ModelNames |->
            [i \in DOMAIN computed.scores[name] |->
                Normalize(computed.scores[name][i], metadata[name].score_stats)]]
    ELSE EmptyDict

\* iforest_normalized and lof_normalized of predict_batch (lines 139-148)
BatchNormalized(artifacts, raw) ==
    IF ~({"iforest", "lof"} \subseteq DOMAIN artifacts.models)
    THEN EmptyDict
    ELSE [name \in ModelNames |->
            [i \in DOMAIN raw[name] |->
                BatchNormalize(NegatedScores(raw[name])[i],
                               artifacts.metadata[name].score_stats)]]

InitScoring ==
    /\ model_state = ModelStateInit
    /\ loop = "idle"
    /\ clock = 0
    /\ load = LoadIdle
    /\ reload_req = "none"
    /\ score_req = "none"
    /\ score = ScoreIdle
    /\ health = NoHealth
    /\ disk = EmptyDict
    /\ job = JobIdle
    /\ \E c \in DOMAIN ScoringConfigs, n \in 1..MaxRecords :
       \E iforest_metadata \in MetadataSet, lof_metadata \in MetadataSet :
       \E raw \in [ModelNames -> [1..n -> RawValues]] :
          pure = [PureIdle EXCEPT
                    !.pc = "inputs",
                    !.records = [i \in 1..n |-> "a"],
                    !.config = c,
                    !.artifacts =
                       [models |-> [name \in Range(ModelsToLoad(ScoringConfigs[c], "")) |-> 1],
                        metadata |-> [name \in Range(ModelsToLoad(ScoringConfigs[c], "")) |->
                                        IF name = "iforest" THEN iforest_metadata
                                        ELSE lof_metadata]],
                    !.raw = raw]

ApplyScoreRecords ==
    /\ pure.pc = "inputs"
    /\ \E selection \in {"both", "iforest", "lof"} :
          pure' = [pure EXCEPT
                  !.pc = "served",
                  !.selection = selection,
                  !.served = ScoreRecords(pure.artifacts.models, pure.artifacts.metadata,
                                          ScoringConfigs[pure.config], pure.records,
                                          selection, pure.raw),
                  !.normalized =
                     IF CheckSelection(pure.artifacts.models, selection).status # 0
                     THEN EmptyDict
                     ELSE ServedNormalized(Lower(selection), pure.artifacts.metadata,
                              ComputeModels(Range(ModelsToCompute(Lower(selection))),
                                            pure.artifacts.metadata, pure.raw))]
    /\ UNCHANGED <<model_state, loop, clock, load, reload_req, score_req, score, health,
                   disk, job>>

ApplyPredictBatch ==
    /\ pure.pc = "served"
    /\ pure' = [pure EXCEPT
                  !.pc = "done",
                  !.batch = PredictBatch(ScoringConfigs[pure.config], pure.artifacts,
                                         pure.records, pure.raw),
                  !.batch_normalized = BatchNormalized(pure.artifacts, pure.raw)]
    /\ UNCHANGED <<model_state, loop, clock, load, reload_req, score_req, score, health,
                   disk, job>>

NextScoring == ApplyScoreRecords \/ ApplyPredictBatch

SpecScoring == InitScoring /\ [][NextScoring]_vars

(***************************************************************************)
(* Properties of the scoring functions                                     *)
(***************************************************************************)
Served == pure.pc \in {"served", "done"} /\ pure.served.status = 200

Batched == pure.pc = "done" /\ pure.batch.error = ""

\* C9: per record, the ensemble flag is the OR of the iforest flag and the lof
\* flag, in the serving response and in the batch table.
C9_EnsembleFlagIsOr ==
    /\ (Served /\ pure.selection = "both") =>
          \A i \in DOMAIN pure.served.scores :
             LET flags == pure.served.scores[i].is_anomaly
             IN flags["ensemble"] =
                   IF flags["iforest"] = 1 \/ flags["lof"] = 1 THEN 1 ELSE 0
    /\ Batched =>
          \A i \in DOMAIN pure.batch.rows :
             LET row == pure.batch.rows[i]
             IN row.ensemble_anomaly <=> (row.iforest_anomaly \/ row.lof_anomaly)

\* C9 witness: only lof flags the record, the ensemble score is 0, and the
\* ensemble flag is set, served and in batch.
C9_Witness ==
    /\ Served /\ Batched /\ pure.selection = "both"
    /\ LET r == pure.served.scores[1]
           row == pure.batch.rows[1]
       IN /\ r.is_anomaly["iforest"] = 0 /\ r.is_anomaly["lof"] = 1
          /\ r.is_anomaly["ensemble"] = 1
          /\ r.scores["ensemble"] = <<0, 1>>
          /\ ~row.iforest_anomaly /\ row.lof_anomaly /\ row.ensemble_anomaly
          /\ row.ensemble_score = <<0, 1>>

\* C10: per record and model, the flag is set exactly when the negated raw
\* score is at least the threshold stored for the model, served and in batch.
C10_FlagIffAtLeastThreshold ==
    /\ Served =>
          \A i \in DOMAIN pure.served.scores :
             \A name \in DOMAIN pure.served.scores[i].is_anomaly \ {"ensemble"} :
                (pure.served.scores[i].is_anomaly[name] = 1)
                   <=> (-pure.raw[name][i] >= pure.artifacts.metadata[name].threshold)
    /\ Batched =>
          \A i \in DOMAIN pure.batch.rows :
             /\ pure.batch.rows[i].iforest_anomaly
                   <=> (-pure.raw["iforest"][i]
                           >= pure.artifacts.metadata["iforest"].threshold)
             /\ pure.batch.rows[i].lof_anomaly
                   <=> (-pure.raw["lof"][i] >= pure.artifacts.metadata["lof"].threshold)

\* C10 witness: a score equal to its threshold is flagged, served and in batch.
C10_Witness ==
    /\ Served /\ Batched /\ pure.selection = "both"
    /\ -pure.raw["iforest"][1] = pure.artifacts.metadata["iforest"].threshold
    /\ -pure.raw["lof"][1] = pure.artifacts.metadata["lof"].threshold
    /\ pure.served.scores[1].is_anomaly["iforest"] = 1
    /\ pure.served.scores[1].is_anomaly["lof"] = 1
    /\ pure.batch.rows[1].iforest_anomaly
    /\ pure.batch.rows[1].lof_anomaly

C29_BatchEqualsServed ==
    (Served /\ Batched /\ pure.selection = "both") =>
        /\ Len(pure.batch.rows) = Len(pure.served.scores)
        /\ \A i \in DOMAIN pure.served.scores :
              LET r == pure.served.scores[i]
                  row == pure.batch.rows[i]
              IN /\ row.interaction_id = r.interaction_id
                 /\ row.iforest_score = r.scores["iforest"]
                 /\ row.iforest_anomaly <=> (r.is_anomaly["iforest"] = 1)
                 /\ row.lof_score = r.scores["lof"]
                 /\ row.lof_anomaly <=> (r.is_anomaly["lof"] = 1)
                 /\ row.ensemble_score = r.scores["ensemble"]
                 /\ row.ensemble_anomaly <=> (r.is_anomaly["ensemble"] = 1)

\* C29 witness: under unequal weights, a record that only iforest flags has
\* the same ensemble score, strictly between 0 and 1, served and in batch.
C29_Witness ==
    /\ Served /\ Batched /\ pure.selection = "both"
    /\ ScoringConfigs[pure.config].weights = [iforest |-> <<3, 10>>, lof |-> <<7, 10>>]
    /\ pure.batch.rows[1].iforest_anomaly /\ ~pure.batch.rows[1].lof_anomaly
    /\ pure.served.scores[1].is_anomaly = [iforest |-> 1, lof |-> 0, ensemble |-> 1]
    /\ pure.batch.rows[1].ensemble_score = pure.served.scores[1].scores["ensemble"]
    /\ pure.batch.rows[1].ensemble_score \notin {<<0, 1>>, <<1, 1>>}

(***************************************************************************)
(* train.py main: load_config, train_models, save_artifacts.               *)
(* `job.before` remembers the directory and `job.input` the table at the   *)
(* start (they are not program state).                                     *)
(***************************************************************************)
JobConfig == JobConfigs[job.config]

Rows == DOMAIN job.df.channel

ModelNamesOf(config) == [i \in DOMAIN config.models |-> config.models[i].name]

\* `python -m src.train` on one of the given training tables; the directory is
\* empty or the one an earlier run left.
StartTrainOn(tables) ==
    /\ job.pc = "idle"
    /\ disk \in {EmptyDict, OldArtifacts}
    /\ \E c \in DOMAIN JobConfigs, table \in tables :
          job' = [JobIdle EXCEPT !.pc = "validate", !.cmd = "train", !.config = c,
                                 !.input = table, !.df = table, !.before = disk]
    /\ UNCHANGED disk /\ RegistryIdle

StartTrain == StartTrainOn(Tables(MaxTrainRows))

\* Lines 56-61: df = load_csv(train_path); validate_schema(df, config["features"])
TrainValidate ==
    /\ job.cmd = "train" /\ job.pc = "validate"
    /\ job' = IF MissingColumns(job.df.columns, JobConfig.features) # {}
              THEN [job EXCEPT !.pc = "failed",
                               !.error = "DataFrame missing required columns"]
              ELSE [job EXCEPT !.pc = "prepare"]
    /\ UNCHANGED disk /\ RegistryIdle

\* Line 64: feature_df, identifier_cols = prepare_features(df, config["features"])
TrainPrepare ==
    /\ job.cmd = "train" /\ job.pc = "prepare"
    /\ job' = [job EXCEPT !.pc = "fit",
                          !.feature_cols = PrepareFeatures(job.df.columns, JobConfig.features)]
    /\ UNCHANGED disk /\ RegistryIdle

\* Lines 67-83: build_preprocessor and X_train = preprocessor.fit_transform(feature_df)
TrainFit ==
    /\ job.cmd = "train" /\ job.pc = "fit"
    /\ job' = IF TransformMissing(job.feature_cols, JobConfig.features) # {}
              THEN [job EXCEPT !.pc = "failed", !.error = "columns are missing"]
              ELSE LET preprocessor == FitPreprocessor(JobConfig, job.df)
                   IN [job EXCEPT
                         !.pc = "model", !.i = 1, !.fitted = TRUE,
                         !.preprocessor = preprocessor,
                         !.X = [r \in Rows |-> OneHot(preprocessor, job.df.channel[r]).vector]]
    /\ UNCHANGED disk /\ RegistryIdle

\* The model is saved as soon as it is fitted.
TrainModelSaving ==
    /\ job.cmd = "train" /\ job.pc = "model"
    /\ LET model_config == JobConfig.models[job.i]
       IN IF model_config.algorithm \notin {"IsolationForest", "LOF"}
          THEN /\ job' = [job EXCEPT !.pc = "failed", !.error = "Unsupported algorithm"]
               /\ UNCHANGED disk
          ELSE \E train_scores \in [Rows -> 0..MaxScore] :
                 /\ job' = [job EXCEPT
                       !.pc = IF job.i = Len(JobConfig.models) THEN "return" ELSE "model",
                       !.i = @ + 1,
                       !.train_scores = train_scores,
                       !.models = DictSet(@, model_config.name,
                                          [algorithm |-> model_config.algorithm]),
                       !.metadata = DictSet(@, model_config.name,
                                            ModelMetadata(model_config, train_scores))]
                 /\ disk' = DictSet(disk, ModelPath(model_config.name),
                                    [algorithm |-> model_config.algorithm])
    /\ RegistryIdle

\* Lines 89-135, one iteration: fit the model, score the training rows,
\* calibrate the threshold, store model and metadata; an unknown algorithm
\* raises ValueError.
TrainModel ==
    /\ job.cmd = "train" /\ job.pc = "model"
    /\ LET model_config == JobConfig.models[job.i]
       IN IF model_config.algorithm \notin {"IsolationForest", "LOF"}
          THEN job' = [job EXCEPT !.pc = "failed", !.error = "Unsupported algorithm"]
          ELSE \E train_scores \in [Rows -> 0..MaxScore] :
                 job' = [job EXCEPT
                    !.pc = IF job.i = Len(JobConfig.models) THEN "return" ELSE "model",
                    !.i = @ + 1,
                    !.train_scores = train_scores,
                    !.models = DictSet(@, model_config.name,
                                       [algorithm |-> model_config.algorithm]),
                    !.metadata = DictSet(@, model_config.name,
                                         ModelMetadata(model_config, train_scores))]
    /\ UNCHANGED disk /\ RegistryIdle

\* Lines 137-150: the global metadata; train_models returns and its locals
\* (train_scores, X_train) are gone.
TrainReturn ==
    /\ job.cmd = "train" /\ job.pc = "return"
    /\ job' = [job EXCEPT
                  !.pc = "save_preprocessor",
                  !.train_scores = <<>>, !.X = <<>>,
                  !.metadata = DictSet(@, "global",
                                       [models_trained |-> ModelNamesOf(JobConfig)])]
    /\ UNCHANGED disk /\ RegistryIdle

\* save_artifacts, lines 161-167
SavePreprocessor ==
    /\ job.pc = "save_preprocessor"
    /\ disk' = DictSet(disk, PreprocessorPath, job.preprocessor)
    /\ job' = [job EXCEPT !.pc = "save_model", !.i = 1]
    /\ RegistryIdle

\* save_artifacts, lines 173-177
SaveModel ==
    /\ job.pc = "save_model"
    /\ LET name == ModelNamesOf(JobConfig)[job.i]
       IN disk' = DictSet(disk, ModelPath(name), job.models[name])
    /\ job' = [job EXCEPT !.pc = "save_meta"]
    /\ RegistryIdle

\* save_artifacts, lines 179-182
SaveMeta ==
    /\ job.pc = "save_meta"
    /\ LET name == ModelNamesOf(JobConfig)[job.i]
       IN disk' = DictSet(disk, MetaPath(name), job.metadata[name])
    /\ job' = [job EXCEPT
                  !.pc = IF job.i = Len(JobConfig.models) THEN "save_global" ELSE "save_model",
                  !.i = @ + 1]
    /\ RegistryIdle

\* save_artifacts, lines 184-189
SaveGlobal ==
    /\ job.pc = "save_global"
    /\ disk' = DictSet(disk, GlobalMetaPath, job.metadata["global"])
    /\ job' = [job EXCEPT !.pc = "done"]
    /\ RegistryIdle

\* The command exits, with status 0 or with the exception main re-raises.
JobExit ==
    /\ job.pc \in {"done", "failed"}
    /\ job' = JobIdle
    /\ UNCHANGED disk /\ RegistryIdle

(***************************************************************************)
(* predict.py main: load_config, load_artifacts, predict_batch,            *)
(* save_predictions.  job.df is the table at the inference path.           *)
(***************************************************************************)
\* `python -m src.predict --model m` on an inference table.
StartPredict ==
    /\ job.pc = "idle"
    /\ \E c \in DOMAIN JobConfigs, table \in Tables(MaxRecords),
          m \in {"ensemble", "iforest", "rcf"} :
          job' = [JobIdle EXCEPT !.pc = "load", !.cmd = "predict", !.config = c,
                                 !.input = table, !.df = table, !.model_arg = m,
                                 !.before = disk]
    /\ UNCHANGED disk /\ RegistryIdle

\* load_artifacts(config, model_name): joblib.load raises on a missing file,
\* a name that is not configured raises ValueError.
PredictLoad ==
    /\ job.cmd = "predict" /\ job.pc = "load"
    /\ LET model_name == IF job.model_arg # "ensemble" THEN job.model_arg ELSE ""
           models_to_load == ModelsToLoad([models |-> ModelNamesOf(JobConfig)], model_name)
           files == {ModelPath(name) : name \in Range(models_to_load)}
                       \cup {MetaPath(name) : name \in Range(models_to_load)}
       IN job' =
            IF PreprocessorPath \notin DOMAIN disk
            THEN [job EXCEPT !.pc = "failed", !.error = "No such file or directory"]
            ELSE IF models_to_load = <<>>
            THEN [job EXCEPT !.pc = "failed", !.error = "Invalid model name"]
            ELSE IF ~(files \subseteq DOMAIN disk)
            THEN [job EXCEPT !.pc = "failed", !.error = "No such file or directory"]
            ELSE [job EXCEPT
                    !.pc = "check",
                    !.preprocessor = disk[PreprocessorPath],
                    !.models = [name \in Range(models_to_load) |-> disk[ModelPath(name)]],
                    !.metadata = [name \in Range(models_to_load) |-> disk[MetaPath(name)]]]
    /\ UNCHANGED disk /\ RegistryIdle

\* predict_batch, lines 90-104: the required models, then prepare_features.
PredictCheck ==
    /\ job.cmd = "predict" /\ job.pc = "check"
    /\ job' = IF ~({"iforest", "lof"} \subseteq DOMAIN job.models)
              THEN [job EXCEPT !.pc = "failed", !.error = "Required models not available"]
              ELSE [job EXCEPT
                      !.pc = "transform",
                      !.feature_cols = PrepareFeatures(job.df.columns, JobConfig.features)]
    /\ UNCHANGED disk /\ RegistryIdle

\* predict_batch, line 108: X = artifacts["preprocessor"].transform(feature_df)
PredictTransform ==
    /\ job.cmd = "predict" /\ job.pc = "transform"
    /\ job' =
         IF ~(job.preprocessor.columns \subseteq Range(job.feature_cols))
         THEN [job EXCEPT !.pc = "failed", !.error = "columns are missing"]
         ELSE IF \E r \in Rows : OneHot(job.preprocessor, job.df.channel[r]).raised
         THEN [job EXCEPT !.pc = "failed", !.error = "Found unknown categories"]
         ELSE [job EXCEPT
                 !.pc = "score",
                 !.X = [r \in Rows |-> OneHot(job.preprocessor, job.df.channel[r]).vector]]
    /\ UNCHANGED disk /\ RegistryIdle

\* predict_batch, lines 110-176, and save_predictions: every row is scored by
\* both models, then the results table takes df["interaction_id"].
PredictScore ==
    /\ job.cmd = "predict" /\ job.pc = "score"
    /\ job' = IF "interaction_id" \notin Range(job.df.columns)
              THEN [job EXCEPT !.pc = "failed", !.scored = Len(job.df.channel),
                               !.error = "KeyError: 'interaction_id'"]
              ELSE [job EXCEPT !.pc = "done", !.scored = Len(job.df.channel)]
    /\ UNCHANGED disk /\ RegistryIdle

InitJobs ==
    /\ model_state = ModelStateInit
    /\ loop = "idle"
    /\ clock = 0
    /\ load = LoadIdle
    /\ reload_req = "none"
    /\ score_req = "none"
    /\ score = ScoreIdle
    /\ health = NoHealth
    /\ pure = PureIdle
    /\ disk \in {EmptyDict, OldArtifacts}
    /\ job = JobIdle

NextJobs ==
    \/ StartTrain
    \/ TrainValidate
    \/ TrainPrepare
    \/ TrainFit
    \/ TrainModel
    \/ TrainReturn
    \/ SavePreprocessor
    \/ SaveModel
    \/ SaveMeta
    \/ SaveGlobal
    \/ JobExit
    \/ StartPredict
    \/ PredictLoad
    \/ PredictCheck
    \/ PredictTransform
    \/ PredictScore

SpecJobs == InitJobs /\ [][NextJobs]_vars

(***************************************************************************)
(* Properties of the jobs                                                  *)
(***************************************************************************)
\* C13: for the model just calibrated, score_stats holds the least and the
\* greatest training score, the threshold at percentile 100 is that maximum
\* and the threshold at percentile 0 is that minimum.
C13_ExtremePercentiles ==
    (job.cmd = "train" /\ job.train_scores # <<>>) =>
        LET name == ModelNamesOf(JobConfig)[job.i - 1]
            meta == job.metadata[name]
            scores == Range(job.train_scores)
        IN /\ meta.score_stats.min \in scores
           /\ meta.score_stats.max \in scores
           /\ \A x \in scores : meta.score_stats.min <= x /\ x <= meta.score_stats.max
           /\ meta.threshold_percentile = 100 => meta.threshold = <<meta.score_stats.max, 1>>
           /\ meta.threshold_percentile = 0 => meta.threshold = <<meta.score_stats.min, 1>>

\* C13 witness: lof was calibrated at percentile 0 on unequal training scores
\* and its threshold is their minimum; iforest, calibrated at percentile 100,
\* has its maximum as threshold.
C13_Witness ==
    /\ job.cmd = "train" /\ job.pc = "return"
    /\ {"iforest", "lof"} \subseteq DOMAIN job.metadata
    /\ job.metadata["lof"].threshold_percentile = 0
    /\ job.metadata["lof"].score_stats.min < job.metadata["lof"].score_stats.max
    /\ job.metadata["lof"].threshold = <<job.metadata["lof"].score_stats.min, 1>>
    /\ job.metadata["iforest"].threshold_percentile = 100
    /\ job.metadata["iforest"].score_stats.min < job.metadata["iforest"].score_stats.max
    /\ job.metadata["iforest"].threshold = <<job.metadata["iforest"].score_stats.max, 1>>

\* The rows of the inference table went through preprocessor.transform.
TransformReached ==
    /\ job.cmd = "predict"
    /\ job.X # <<>> \/ job.error = "Found unknown categories"

UnknownRows == {r \in Rows : job.df.channel[r] \notin job.preprocessor.categories}

UnknownRowsAreZero ==
    /\ job.error # "Found unknown categories"
    /\ \A r \in UnknownRows : job.X[r] = [c \in job.preprocessor.categories |-> 0]

C17_SchemaCheckedFirst ==
    (job.pc # "idle" /\ MissingColumns(job.df.columns, JobConfig.features) # {}) =>
        /\ ~job.fitted
        /\ job.X = <<>>
        /\ job.scored = 0
        /\ job.pc # "done"

\* C19: the feature table has exactly the input's columns that are neither
\* identifier columns nor drop columns of the configuration, and the input
\* table is what it was.
C19_PrepareFeaturesDropsOnly ==
    job.feature_cols # <<>> =>
        LET features == JobConfig.features
            identifier_cols == DictGet(features, "identifier_columns",
                                       DefaultIdentifierColumns)
            drop_cols == DictGet(features, "drop_columns", <<>>)
        IN /\ Range(job.feature_cols) \cap Range(identifier_cols) = {}
           /\ Range(job.feature_cols) \cap Range(drop_cols) = {}
           /\ \A c \in Range(job.input.columns) :
                 (c \notin Range(identifier_cols) /\ c \notin Range(drop_cols))
                    => c \in Range(job.feature_cols)
           /\ job.df = job.input

\* C19 witness: a table with all five columns under a configuration that
\* drops "notes": the feature table has csat and channel.
C19_Witness ==
    /\ job.pc = "fit"
    /\ job.df.columns = CsvColumns
    /\ DictGet(JobConfig.features, "drop_columns", <<>>) = <<"notes">>
    /\ job.feature_cols = <<"csat", "channel">>

\* C20: a train run whose configuration names an unsupported algorithm never
\* reaches save_artifacts and leaves the directory as it found it.
C20_UnsupportedAlgorithmWritesNothing ==
    (/\ job.cmd = "train"
     /\ \E i \in DOMAIN JobConfig.models :
           JobConfig.models[i].algorithm \notin {"IsolationForest", "LOF"})
        => /\ disk = job.before
           /\ job.pc \notin {"save_preprocessor", "save_model", "save_meta",
                              "save_global", "done"}

\* C20 witness: iforest was fitted, the second model's algorithm raised, and
\* the directory still holds the earlier run's artifacts.
C20_Witness ==
    /\ job.cmd = "train" /\ job.pc = "failed"
    /\ job.error = "Unsupported algorithm"
    /\ DOMAIN job.models = {"iforest"}
    /\ disk = OldArtifacts

\* The files load_artifacts reads when every configured model is loaded.
ArtifactFiles(config) ==
    {PreprocessorPath}
        \cup {ModelPath(name) : name \in Range(ModelNamesOf(config))}
        \cup {MetaPath(name) : name \in Range(ModelNamesOf(config))}

\* C25: a predict run with --model ensemble or --model <a configured name>,
\* on a directory that holds the artifacts of every configured model and on a
\* table with every column whose categories the preprocessor accepts, does
\* not fail.
C25_PredictAcceptsSingleModel ==
    (/\ job.cmd = "predict"
     /\ job.model_arg = "ensemble" \/ job.model_arg \in Range(ModelNamesOf(JobConfig))
     /\ job.df.columns = CsvColumns
     /\ ArtifactFiles(JobConfig) \subseteq DOMAIN disk
     /\ \A r \in Rows : ~OneHot(disk[PreprocessorPath], job.df.channel[r]).raised)
        => job.pc # "failed"

InUnit(q) == q[1] >= 0 /\ q[1] <= q[2]

\* The sum of the ensemble weights a configuration gives.
ConfiguredWeightSum(weights) ==
    RatAdd(DictGet(weights, "iforest", <<0, 1>>), DictGet(weights, "lof", <<0, 1>>))

EnsembleInUnit ==
    /\ (Served /\ pure.selection = "both") =>
          \A i \in DOMAIN pure.served.scores :
             InUnit(pure.served.scores[i].scores["ensemble"])
    /\ Batched =>
          \A i \in DOMAIN pure.batch.rows : InUnit(pure.batch.rows[i].ensemble_score)

\* C11 as stated: when the configured ensemble weights sum to 1, every ensemble
\* score lies in [0, 1], served and in batch.
C11_EnsembleInUnitIfSumOne ==
    ConfiguredWeightSum(ScoringConfigs[pure.config].weights) = <<1, 1>>
        => EnsembleInUnit

\* C11 amended: when a weight is configured for each of the two models, no
\* weight is negative and the weights sum to 1, every ensemble score lies in
\* [0, 1], served and in batch.
C11_EnsembleInUnitIfConvex ==
    LET weights == ScoringConfigs[pure.config].weights
    IN (/\ ModelNames \subseteq DOMAIN weights
        /\ \A name \in ModelNames : weights[name][1] >= 0
        /\ ConfiguredWeightSum(weights) = <<1, 1>>)
          => EnsembleInUnit

\* C11 witness: unequal weights 3/10 and 7/10, both scores above the training
\* maximum, and the ensemble score is exactly 1, served and in batch.
C11_Witness ==
    /\ Served /\ Batched /\ pure.selection = "both"
    /\ ScoringConfigs[pure.config].weights = [iforest |-> <<3, 10>>, lof |-> <<7, 10>>]
    /\ \A name \in ModelNames :
          -pure.raw[name][1] > pure.artifacts.metadata[name].score_stats.max
    /\ pure.served.scores[1].scores["ensemble"] = <<1, 1>>
    /\ pure.batch.rows[1].ensemble_score = <<1, 1>>

\* q is the score s normalized with the training statistics: 0 up to the
\* minimum, 1 above the maximum, (s - min) / (max - min + 1/EpsInv) between.
NormalizedAsTrained(q, s, stats) ==
    /\ InUnit(q)
    /\ s <= stats.min => q = <<0, 1>>
    /\ s > stats.max => q = <<1, 1>>
    /\ (stats.min < s /\ s <= stats.max) =>
          q[1] * ((stats.max - stats.min) * EpsInv + 1) = q[2] * (s - stats.min) * EpsInv

\* C12: with both models loaded and any stored min <= max (min = max included),
\* scoring completes, and each normalized score lies in [0, 1] and is the
\* function above of the record's own score and the model's training
\* statistics, served and in batch.
C12_NormalizationIsGuarded ==
    /\ (pure.pc \in {"served", "done"} /\ ModelNames \subseteq DOMAIN pure.artifacts.models)
          => /\ pure.served.status = 200
             /\ pure.selection = "both" => DOMAIN pure.normalized = ModelNames
    /\ (pure.pc = "done" /\ ModelNames \subseteq DOMAIN pure.artifacts.models)
          => /\ pure.batch.error = ""
             /\ DOMAIN pure.batch_normalized = ModelNames
    /\ \A name \in DOMAIN pure.normalized : \A i \in DOMAIN pure.normalized[name] :
          NormalizedAsTrained(pure.normalized[name][i], -pure.raw[name][i],
                              pure.artifacts.metadata[name].score_stats)
    /\ \A name \in DOMAIN pure.batch_normalized :
          \A i \in DOMAIN pure.batch_normalized[name] :
             NormalizedAsTrained(pure.batch_normalized[name][i], -pure.raw[name][i],
                                 pure.artifacts.metadata[name].score_stats)

\* C12 witness: both models were trained with min = max; the iforest score
\* equals that value and normalizes to 0, the lof score is above it and
\* normalizes to 1, served and in batch.
C12_Witness ==
    /\ Served /\ Batched /\ pure.selection = "both"
    /\ \A name \in ModelNames :
          pure.artifacts.metadata[name].score_stats.min
             = pure.artifacts.metadata[name].score_stats.max
    /\ -pure.raw["iforest"][1] = pure.artifacts.metadata["iforest"].score_stats.min
    /\ -pure.raw["lof"][1] > pure.artifacts.metadata["lof"].score_stats.max
    /\ pure.normalized["iforest"][1] = <<0, 1>> /\ pure.normalized["lof"][1] = <<1, 1>>
    /\ pure.batch_normalized["iforest"][1] = <<0, 1>>
    /\ pure.batch_normalized["lof"][1] = <<1, 1>>

(***************************************************************************)
(* Training and serving on one artifacts directory.  The train command and *)
(* the service are two processes; load_model_artifacts reads the files     *)
(* that save_artifacts writes, and the steps of the two interleave file by *)
(* file.  Here the registry holds what joblib.load returned, the content   *)
(* of the file.  (A read of a file that is being written is left out.)     *)
(***************************************************************************)
\* The training table of this specification: every column, MaxTrainRows rows,
\* a "voice" row followed by "chat" rows.
CompleteTables ==
    {t \in Tables(MaxTrainRows) :
        /\ t.columns = CsvColumns
        /\ Len(t.channel) = MaxTrainRows
        /\ \A i \in DOMAIN t.channel : t.channel[i] = (IF i = 1 THEN "voice" ELSE "chat")}

\* The files save_artifacts has written so far.
SavedFiles ==
    LET names == ModelNamesOf(JobConfig)
        upto(n) == {ModelPath(names[k]) : k \in 1..n} \cup {MetaPath(names[k]) : k \in 1..n}
    IN IF job.pc = "save_model" THEN {PreprocessorPath} \cup upto(job.i - 1)
       ELSE IF job.pc = "save_meta"
       THEN {PreprocessorPath} \cup upto(job.i - 1) \cup {ModelPath(names[job.i])}
       ELSE IF job.pc = "save_global" THEN {PreprocessorPath} \cup upto(Len(names))
       ELSE IF job.pc = "done" /\ job.cmd = "train"
       THEN {PreprocessorPath, GlobalMetaPath} \cup upto(Len(names))
       ELSE {}

ServiceIdle == UNCHANGED <<loop, reload_req, score_req, score, health, pure, disk, job>>

\* startup_event or reload_model calls load_model_artifacts.
ServiceLoadStart ==
    /\ load.pc = "idle"
    /\ clock < MaxLoads
    /\ clock' = clock + 1
    /\ load' = [LoadIdle EXCEPT
                  !.pc = "config",
                  !.caller = IF clock = 0 THEN "startup" ELSE "reload",
                  !.before = model_state,
                  !.after_train = (job.cmd = "train" /\ job.pc = "done")]
    /\ UNCHANGED model_state /\ ServiceIdle

\* config = load_config(): the configuration file as it is now.
ServiceLoadConfig ==
    /\ load.pc = "config"
    /\ \E c \in DOMAIN JobConfigs : load' = [load EXCEPT !.pc = "preprocessor", !.config = c]
    /\ UNCHANGED <<model_state, clock>> /\ ServiceIdle

\* _model_state["preprocessor"] = joblib.load(preprocessor_path)
ServiceLoadPreprocessor ==
    /\ load.pc = "preprocessor"
    /\ IF PreprocessorPath \in DOMAIN disk
       THEN /\ model_state' = [model_state EXCEPT !.preprocessor = disk[PreprocessorPath]]
            /\ load' = [load EXCEPT
                          !.pc = "model", !.i = 1,
                          !.reads = DictSet(@, PreprocessorPath,
                                            PreprocessorPath \in SavedFiles)]
       ELSE /\ load' = [load EXCEPT !.pc = "raise"]
            /\ UNCHANGED model_state
    /\ UNCHANGED clock /\ ServiceIdle

\* _model_state["models"][model_name] = joblib.load(model_path)
ServiceLoadModel ==
    /\ load.pc = "model"
    /\ LET model_name == ModelNamesOf(JobConfigs[load.config])[load.i]
           model_path == ModelPath(model_name)
       IN IF model_path \in DOMAIN disk
          THEN /\ model_state' = [model_state EXCEPT
                                    !.models = DictSet(@, model_name, disk[model_path])]
               /\ load' = [load EXCEPT
                             !.pc = "meta",
                             !.reads = DictSet(@, model_path, model_path \in SavedFiles)]
          ELSE /\ load' = [load EXCEPT !.pc = "raise"]
               /\ UNCHANGED model_state
    /\ UNCHANGED clock /\ ServiceIdle

\* _model_state["metadata"][model_name] = joblib.load(meta_path)
ServiceLoadMeta ==
    /\ load.pc = "meta"
    /\ LET names == ModelNamesOf(JobConfigs[load.config])
           model_name == names[load.i]
           meta_path == MetaPath(model_name)
       IN IF meta_path \in DOMAIN disk
          THEN /\ model_state' = [model_state EXCEPT
                                    !.metadata = DictSet(@, model_name, disk[meta_path])]
               /\ load' = [load EXCEPT
                             !.pc = IF load.i = Len(names) THEN "finish" ELSE "model",
                             !.i = @ + 1,
                             !.reads = DictSet(@, meta_path, meta_path \in SavedFiles)]
          ELSE /\ load' = [load EXCEPT !.pc = "raise"]
               /\ UNCHANGED model_state
    /\ UNCHANGED clock /\ ServiceIdle

\* _model_state["loaded_at"] = now; _model_state["config"] = config
ServiceLoadFinish ==
    /\ load.pc = "finish"
    /\ model_state' = [model_state EXCEPT !.loaded_at = clock, !.config = load.config]
    /\ load' = [load EXCEPT !.pc = "return"]
    /\ UNCHANGED clock /\ ServiceIdle

\* The caller logs or answers; the locals of the load are gone.
ServiceLoadDone ==
    /\ load.pc \in {"return", "raise"}
    /\ load' = LoadIdle
    /\ UNCHANGED <<model_state, clock>> /\ ServiceIdle

InitDeploy ==
    /\ model_state = ModelStateInit
    /\ loop = "idle"
    /\ clock = 0
    /\ load = LoadIdle
    /\ reload_req = "none"
    /\ score_req = "none"
    /\ score = ScoreIdle
    /\ health = NoHealth
    /\ pure = PureIdle
    /\ disk \in {EmptyDict, OldArtifacts}
    /\ job = JobIdle

NextDeploy ==
    \/ StartTrainOn(CompleteTables)
    \/ TrainValidate
    \/ TrainPrepare
    \/ TrainFit
    \/ TrainModel
    \/ TrainReturn
    \/ SavePreprocessor
    \/ SaveModel
    \/ SaveMeta
    \/ SaveGlobal
    \/ ServiceLoadStart
    \/ ServiceLoadConfig
    \/ ServiceLoadPreprocessor
    \/ ServiceLoadModel
    \/ ServiceLoadMeta
    \/ ServiceLoadFinish
    \/ ServiceLoadDone

SpecDeploy == InitDeploy /\ [][NextDeploy]_vars

C28_LoadInstallsOneRun ==
    load.pc = "return" =>
        \A f, g \in DOMAIN load.reads : load.reads[f] = load.reads[g]

====
